---- MODULE Spec2Model ----
(***************************************************************************)
(* Model of go-controller/pkg/ovn/endpoints.go: the reconciliation of      *)
(* Service/Endpoints objects into load-balancer VIPs (AddEndpoints,        *)
(* deleteEndpoints, handleNodePortLB) and its pure helpers                 *)
(* (getLbEndpoints, hasHostEndpoints, svcNeedsIdling).                     *)
(*                                                                         *)
(* IP addresses are integers.  Load balancers are <<tier, node, protocol>> *)
(* with tier "cluster" (node 0), "gw" (gateway router) or "wk" (worker     *)
(* switch).  A VIP is <<address, port>>; its value is a sequence of        *)
(* <<ip, port>> targets, and the empty sequence is an absent VIP.          *)
(***************************************************************************)
EXTENDS Integers, Sequences, FiniteSets, TLC

\* ------------------------------------------------------------------ bounds
NumNodes == 2

Nodes == 1..NumNodes

\* ------------------------------------------------------- addresses and ports
EmptyIP == 0           \* the empty string of an unset ClusterIP or ingress IP
ClusterIPNone == -1    \* kapi.ClusterIPNone ("None", a headless service)
MalformedIP == -2      \* a string net.ParseIP does not parse
NilIP == -3            \* the nil net.IP that net.ParseIP returns on failure

PodIP1 == 10
PodIP2 == 11
PodIP3 == 30
SvcIPA == 100
SvcIPB == 101
ExtIP == 150
IngIP == 160
PhysicalIP(n) == 200 + n
HostIP == PhysicalIP(1)   \* a host-networked pod has its node's address

\* config.Default.ClusterSubnets: the pod-address ranges, each a CIDR given
\* by its first and last address.
ClusterSubnets == {[lo |-> 10, hi |-> 19], [lo |-> 30, hi |-> 39]}

Protocols == {"TCP", "UDP", "SCTP"}

\* ------------------------------------------------------------ configuration
VARIABLES
    gwMode,        \* config.Gateway.Mode: "shared" or "local"
    SCTPSupport,   \* ovn.SCTPSupport
    emptyLbEvents, \* config.Kubernetes.OVNEmptyLbEvents
    svcController, \* ovn.svcController != nil
    gwIfaceNone,   \* isGatewayInterfaceNone()
    services,      \* watchFactory's services: key -> service or NoService
    lbs,           \* the LB backend: set of [lb, vip, targets], targets non-empty
    idling,        \* the idling balancer: set of registered service keys
    last,          \* the operation that ran last, its arguments and result
    faulted,       \* whether an operation ran against a failing backend
    conc,          \* two AddEndpoints calls in flight: snapshots and positions
    ret            \* a helper called on its own: its argument and what it returned

config == <<gwMode, SCTPSupport, emptyLbEvents, svcController, gwIfaceNone, services>>
vars == <<gwMode, SCTPSupport, emptyLbEvents, svcController, gwIfaceNone, services,
          lbs, idling, last, faulted, conc, ret>>

\* ------------------------------------------------------------ sequences
RECURSIVE SeqToSet(_)
SeqToSet(s) == IF s = <<>> THEN {} ELSE {Head(s)} \cup SeqToSet(Tail(s))

RECURSIVE Flatten(_)
Flatten(ss) == IF ss = <<>> THEN <<>> ELSE Head(ss) \o Flatten(Tail(ss))

\* ------------------------------------------------------------ getLbEndpoints
\* util.ValidatePort: a known protocol and a port in 1..65535
ValidatePort(proto, port) == proto \in Protocols /\ port > 0 /\ port <= 65535

EmptyProtoPortMap == [p \in Protocols |-> <<>>]

\* the loop body without the append to an entry already there
LbEndpointsStep_Replace(m, ip, port) ==
    IF ~ValidatePort(port.Protocol, port.Port) THEN m
    ELSE [m EXCEPT ![port.Protocol] =
             (port.Name :> [IPs |-> <<ip>>, Port |-> port.Port]) @@ m[port.Protocol]]

\* one iteration of the innermost loop body (lines 31-41)
LbEndpointsStep(m, ip, port) ==
    IF ~ValidatePort(port.Protocol, port.Port) THEN m
    ELSE LET inner == m[port.Protocol]
             ips == IF port.Name \in DOMAIN inner
                    THEN Append(inner[port.Name].IPs, ip)
                    ELSE <<ip>>
         IN [m EXCEPT ![port.Protocol] =
                (port.Name :> [IPs |-> ips, Port |-> port.Port]) @@ inner]

RECURSIVE LbEndpointsPorts(_, _, _)
LbEndpointsPorts(m, ip, ports) ==
    IF ports = <<>> THEN m
    ELSE LbEndpointsPorts(LbEndpointsStep(m, ip, Head(ports)), ip, Tail(ports))

RECURSIVE LbEndpointsAddresses(_, _, _)
LbEndpointsAddresses(m, addrs, ports) ==
    IF addrs = <<>> THEN m
    ELSE LbEndpointsAddresses(LbEndpointsPorts(m, Head(addrs), ports), Tail(addrs), ports)

RECURSIVE LbEndpointsSubsets(_, _)
LbEndpointsSubsets(m, subsets) ==
    IF subsets = <<>> THEN m
    ELSE LbEndpointsSubsets(
             LbEndpointsAddresses(m, Head(subsets).Addresses, Head(subsets).Ports),
             Tail(subsets))

getLbEndpoints(ep) == LbEndpointsSubsets(EmptyProtoPortMap, ep.Subsets)

\* ---------------------------------------------------------- hasHostEndpoints
ParseIP(s) == IF s = MalformedIP THEN NilIP ELSE s

CIDRContains(cidr, ip) == ip # NilIP /\ cidr.lo <= ip /\ ip <= cidr.hi

\* true only when no address at all is a cluster pod's
hasHostEndpoints_AllHost(endpointIPs) ==
    /\ endpointIPs # <<>>
    /\ \A i \in DOMAIN endpointIPs :
           ~(\E clusterNet \in ClusterSubnets : CIDRContains(clusterNet, ParseIP(endpointIPs[i])))

RECURSIVE hasHostEndpoints(_)
hasHostEndpoints(endpointIPs) ==
    IF endpointIPs = <<>> THEN FALSE
    ELSE IF ~(\E clusterNet \in ClusterSubnets :
                 CIDRContains(clusterNet, ParseIP(Head(endpointIPs))))
         THEN TRUE
         ELSE hasHostEndpoints(Tail(endpointIPs))

\* ------------------------------------------------------------ svcNeedsIdling
\* An annotation key is a sequence of segments; the reserved suffix is the
\* last segment of an idling annotation.
IdledServiceAnnotationSuffix == <<"idled-at">>

HasSuffix(s, suffix) ==
    /\ Len(s) >= Len(suffix)
    /\ SubSeq(s, Len(s) - Len(suffix) + 1, Len(s)) = suffix

svcNeedsIdling(annotations) ==
    IF ~emptyLbEvents THEN FALSE
    ELSE \E annotationKey \in annotations :
             HasSuffix(annotationKey, IdledServiceAnnotationSuffix)

\* ---------------------------------------------------------- the LB backend
ClusterLB(proto) == <<"cluster", 0, proto>>
GatewayLB(n, proto) == <<"gw", n, proto>>
WorkerLB(n, proto) == <<"wk", n, proto>>
NoLB == <<"none", 0, "none">>
NoKey == <<"", "">>

AllLBs == {ClusterLB(p) : p \in Protocols}
          \cup {GatewayLB(n, p) : n \in Nodes, p \in Protocols}
          \cup {WorkerLB(n, p) : n \in Nodes, p \in Protocols}

\* What the backend double makes fail during one operation:
\*   lb          load balancers whose VIP writes are rejected
\*   noLB        load balancers that cannot be resolved
\*   noPhys      nodes whose gateway router has no physical IPs
\*   noGateways  getOvnGateways fails
\*   noFullSync  RequestFullSync fails
\*   noNamespaces, noEndpoints   the watch factory's listings fail
NoFail == [lb |-> {}, noLB |-> {}, noPhys |-> {}, noGateways |-> FALSE,
           noFullSync |-> FALSE, noNamespaces |-> FALSE, noEndpoints |-> {}]

\* lbEps.IPs joined with the target port: the value of a VIP
Targets(ips, port) == [i \in DOMAIN ips |-> <<ips[i], port>>]

\* A call on the LB backend.  kind "vip" is CreateOrUpdateVIP / ClearVIP
\* (targets = <<>>); "enterIdling" and "exitIdling" change the idling
\* balancer's registrations; "fullSync" is RequestFullSync.
VipCall(lb, addr, port, targets) ==
    [kind |-> "vip", lb |-> lb, vip |-> <<addr, port>>, targets |-> targets, key |-> NoKey]
OtherCall(kind, key) ==
    [kind |-> kind, lb |-> NoLB, vip |-> <<EmptyIP, 0>>, targets |-> <<>>, key |-> key]

CallFails(c, fail) ==
    \/ c.kind = "vip" /\ c.lb \in fail.lb
    \/ c.kind = "fullSync" /\ fail.noFullSync

\* configureLoadBalancer(lb, addr, port, targets): an upsert; nil targets clear.
configureLoadBalancer(lb, addr, port, targets) == VipCall(lb, addr, port, targets)

ApplyVip(L, c) ==
    {e \in L : ~(e.lb = c.lb /\ e.vip = c.vip)}
    \cup (IF c.targets = <<>> THEN {}
          ELSE {[lb |-> c.lb, vip |-> c.vip, targets |-> c.targets]})

\* The backend state is [lbs, idling]; a failed call changes nothing.
ApplyCall(st, c, fail) ==
    IF CallFails(c, fail) THEN st
    ELSE IF c.kind = "vip" THEN [st EXCEPT !.lbs = ApplyVip(@, c)]
    ELSE IF c.kind = "enterIdling" THEN [st EXCEPT !.idling = @ \cup {c.key}]
    ELSE IF c.kind = "exitIdling" THEN [st EXCEPT !.idling = @ \ {c.key}]
    ELSE st

RECURSIVE ApplyCalls(_, _, _)
ApplyCalls(st, calls, fail) ==
    IF calls = <<>> THEN st
    ELSE ApplyCalls(ApplyCall(st, Head(calls), fail), Tail(calls), fail)

AnyFails(calls, fail) == \E i \in DOMAIN calls : CallFails(calls[i], fail)

\* the targets of a VIP on a load balancer, <<>> when absent
VIPTargets(L, lb, vip) ==
    IF \E e \in L : e.lb = lb /\ e.vip = vip
    THEN (CHOOSE e \in L : e.lb = lb /\ e.vip = vip).targets
    ELSE <<>>

\* ------------------------------------------------- gateways and per-node VIPs
NodeSeq == [i \in 1..NumNodes |-> i]

\* getOvnGateways: the gateway routers, one per node
getOvnGateways(fail) == IF fail.noGateways THEN <<>> ELSE NodeSeq

\* getGatewayPhysicalIPs: nil when the gateway router has none
getGatewayPhysicalIPs(n, fail) == IF n \in fail.noPhys THEN <<>> ELSE <<PhysicalIP(n)>>

\* createLoadBalancerVIPs: one upsert per service IP, stopping at the first failure
RECURSIVE createLoadBalancerVIPs(_, _, _, _, _, _)
createLoadBalancerVIPs(lb, svcIPs, port, targetIPs, targetPort, fail) ==
    IF svcIPs = <<>> THEN <<>>
    ELSE LET c == configureLoadBalancer(lb, Head(svcIPs), port, Targets(targetIPs, targetPort))
         IN IF CallFails(c, fail) THEN <<c>>
            ELSE <<c>> \o createLoadBalancerVIPs(lb, Tail(svcIPs), port, targetIPs, targetPort, fail)

\* the per-node work of createPerNodeVIPs for one gateway: the gateway-router
\* LB, then the worker-switch LB; nil svcIPs mean the node's physical IPs
PerNodeVIPsOfNode(n, svcIPs, proto, sourcePort, targetIPs, targetPort, fail) ==
    LET ips == IF svcIPs = <<>> THEN getGatewayPhysicalIPs(n, fail) ELSE svcIPs
        gw == IF GatewayLB(n, proto) \in fail.noLB THEN <<>>
              ELSE createLoadBalancerVIPs(GatewayLB(n, proto), ips, sourcePort,
                                          targetIPs, targetPort, fail)
        wk == IF WorkerLB(n, proto) \in fail.noLB THEN <<>>
              ELSE createLoadBalancerVIPs(WorkerLB(n, proto), ips, sourcePort,
                                          targetIPs, targetPort, fail)
    IN gw \o wk

\* createPerNodeVIPs: every node receives its calls; the step reports an error
\* when the gateways cannot be listed or one of its writes failed
createPerNodeVIPs(svcIPs, proto, sourcePort, targetIPs, targetPort, fail) ==
    LET gws == getOvnGateways(fail)
        calls == Flatten([i \in DOMAIN gws |->
                     PerNodeVIPsOfNode(gws[i], svcIPs, proto, sourcePort,
                                       targetIPs, targetPort, fail)])
    IN [calls |-> calls, err |-> fail.noGateways \/ AnyFails(calls, fail)]

\* deleteLoadBalancerVIP(lb, vip)
deleteLoadBalancerVIP(lb, addr, port) == configureLoadBalancer(lb, addr, port, <<>>)

\* deleteNodeVIPs: clear (ip, port) on the gateway and worker LB of every node
deleteNodeVIPs(svcIPs, proto, sourcePort, fail) ==
    LET gws == getOvnGateways(fail)
        ofNode(n) ==
            LET ips == IF svcIPs = <<>> THEN getGatewayPhysicalIPs(n, fail) ELSE svcIPs
                lbsOf == (IF GatewayLB(n, proto) \in fail.noLB THEN <<>> ELSE <<GatewayLB(n, proto)>>)
                         \o (IF WorkerLB(n, proto) \in fail.noLB THEN <<>> ELSE <<WorkerLB(n, proto)>>)
            IN Flatten([j \in DOMAIN lbsOf |->
                   [k \in DOMAIN ips |-> deleteLoadBalancerVIP(lbsOf[j], ips[k], sourcePort)]])
    IN Flatten([i \in DOMAIN gws |-> ofNode(gws[i])])

\* ----------------------------------------------------------------- services
NoService == [Exists |-> FALSE, ClusterIP |-> EmptyIP, Type |-> "ClusterIP", Ports |-> <<>>,
              ExternalIPs |-> <<>>, Ingress |-> <<>>, Annotations |-> {}]

\* util.IsClusterIPSet
IsClusterIPSet(svc) == svc.ClusterIP # ClusterIPNone /\ svc.ClusterIP # EmptyIP
\* util.ServiceTypeHasClusterIP
ServiceTypeHasClusterIP(svc) == svc.Type \in {"ClusterIP", "NodePort", "LoadBalancer"}
\* util.ServiceTypeHasNodePort
ServiceTypeHasNodePort(svc) == svc.Type \in {"NodePort", "LoadBalancer"}

\* the idling balancer's transitions
addServiceToIdlingBalancer(key) == OtherCall("enterIdling", key)
deleteServiceFromIdlingBalancer(key) == OtherCall("exitIdling", key)

LBSeq(proto) ==
    <<ClusterLB(proto)>>
    \o Flatten([i \in DOMAIN NodeSeq |-> <<GatewayLB(NodeSeq[i], proto), WorkerLB(NodeSeq[i], proto)>>])
AllLBSeq == LBSeq("TCP") \o LBSeq("UDP") \o LBSeq("SCTP")

\* deleteServiceFromBalancers: clear the service's (cluster address, port) VIPs
\* from every cluster and per-node load balancer
deleteServiceFromBalancers(svc) ==
    Flatten([i \in DOMAIN svc.Ports |->
        [j \in DOMAIN AllLBSeq |->
            configureLoadBalancer(AllLBSeq[j], svc.ClusterIP, svc.Ports[i].Port, <<>>)]])

\* ------------------------------------------------------------- AddEndpoints
NoCalls == [calls |-> <<>>, err |-> FALSE]

\* lines 88-93: the NodePort VIPs, on the physical IPs of every node
NodePortPlacement(svc, svcPort, lbEps, fail) ==
    IF ServiceTypeHasNodePort(svc)
    THEN createPerNodeVIPs(<<>>, svcPort.Protocol, svcPort.NodePort, lbEps.IPs, lbEps.Port, fail)
    ELSE NoCalls

\* Variants of ClusterIPPlacement with a plausible slip, used to show that
\* the properties below depend on it.
\* ... the host branch does not exclude the cluster branch (a missing else)
ClusterIPPlacement_BothTiers(svc, svcPort, lbEps, loadBalancer, addClusterLBs, fail) ==
    LET host == IF hasHostEndpoints(lbEps.IPs) /\ gwMode = "shared"
                THEN createPerNodeVIPs(<<svc.ClusterIP>>, svcPort.Protocol, svcPort.Port,
                                       lbEps.IPs, lbEps.Port, fail).calls
                ELSE <<>>
        cluster == IF addClusterLBs
                   THEN createLoadBalancerVIPs(loadBalancer, <<svc.ClusterIP>>, svcPort.Port,
                                               lbEps.IPs, lbEps.Port, fail)
                   ELSE <<>>
    IN [calls |-> host \o cluster, err |-> AnyFails(host \o cluster, fail)]

\* ... the stale cluster-tier VIP is not cleared after the per-node write
ClusterIPPlacement_NoClusterClear(svc, svcPort, lbEps, loadBalancer, addClusterLBs, fail) ==
    IF hasHostEndpoints(lbEps.IPs) /\ gwMode = "shared"
    THEN createPerNodeVIPs(<<svc.ClusterIP>>, svcPort.Protocol, svcPort.Port,
                           lbEps.IPs, lbEps.Port, fail)
    ELSE IF addClusterLBs
    THEN LET c == createLoadBalancerVIPs(loadBalancer, <<svc.ClusterIP>>, svcPort.Port,
                                         lbEps.IPs, lbEps.Port, fail)
         IN IF AnyFails(c, fail) THEN [calls |-> c, err |-> TRUE]
            ELSE [calls |-> c \o deleteNodeVIPs(<<svc.ClusterIP>>, svcPort.Protocol, svcPort.Port, fail),
                  err |-> FALSE]
    ELSE NoCalls

\* ... the stale per-node VIPs are not cleared after the cluster-tier write
ClusterIPPlacement_NoNodeClear(svc, svcPort, lbEps, loadBalancer, addClusterLBs, fail) ==
    IF hasHostEndpoints(lbEps.IPs) /\ gwMode = "shared"
    THEN LET r == createPerNodeVIPs(<<svc.ClusterIP>>, svcPort.Protocol, svcPort.Port,
                                    lbEps.IPs, lbEps.Port, fail)
         IN IF r.err THEN r
            ELSE [calls |-> r.calls \o <<deleteLoadBalancerVIP(loadBalancer, svc.ClusterIP, svcPort.Port)>>,
                  err |-> FALSE]
    ELSE IF addClusterLBs
    THEN LET c == createLoadBalancerVIPs(loadBalancer, <<svc.ClusterIP>>, svcPort.Port,
                                         lbEps.IPs, lbEps.Port, fail)
         IN [calls |-> c, err |-> AnyFails(c, fail)]
    ELSE NoCalls

\* ... the cluster branch does not test addClusterLBs
ClusterIPPlacement_IgnoreFlag(svc, svcPort, lbEps, loadBalancer, addClusterLBs, fail) ==
    IF hasHostEndpoints(lbEps.IPs) /\ gwMode = "shared"
    THEN LET r == createPerNodeVIPs(<<svc.ClusterIP>>, svcPort.Protocol, svcPort.Port,
                                    lbEps.IPs, lbEps.Port, fail)
         IN IF r.err THEN r
            ELSE [calls |-> r.calls \o <<deleteLoadBalancerVIP(loadBalancer, svc.ClusterIP, svcPort.Port)>>,
                  err |-> FALSE]
    ELSE LET c == createLoadBalancerVIPs(loadBalancer, <<svc.ClusterIP>>, svcPort.Port,
                                         lbEps.IPs, lbEps.Port, fail)
         IN IF AnyFails(c, fail) THEN [calls |-> c, err |-> TRUE]
            ELSE [calls |-> c \o deleteNodeVIPs(<<svc.ClusterIP>>, svcPort.Protocol, svcPort.Port, fail),
                  err |-> FALSE]

\* ... the per-node VIPs are cleared at the target port, not the service port
ClusterIPPlacement_ClearTargetPort(svc, svcPort, lbEps, loadBalancer, addClusterLBs, fail) ==
    IF hasHostEndpoints(lbEps.IPs) /\ gwMode = "shared"
    THEN LET r == createPerNodeVIPs(<<svc.ClusterIP>>, svcPort.Protocol, svcPort.Port,
                                    lbEps.IPs, lbEps.Port, fail)
         IN IF r.err THEN r
            ELSE [calls |-> r.calls \o <<deleteLoadBalancerVIP(loadBalancer, svc.ClusterIP, svcPort.Port)>>,
                  err |-> FALSE]
    ELSE IF addClusterLBs
    THEN LET c == createLoadBalancerVIPs(loadBalancer, <<svc.ClusterIP>>, svcPort.Port,
                                         lbEps.IPs, lbEps.Port, fail)
         IN IF AnyFails(c, fail) THEN [calls |-> c, err |-> TRUE]
            ELSE [calls |-> c \o deleteNodeVIPs(<<svc.ClusterIP>>, svcPort.Protocol, lbEps.Port, fail),
                  err |-> FALSE]
    ELSE NoCalls

\* ... the other tier is cleared first and the VIP written afterwards
ClusterIPPlacement_BreakBeforeMake(svc, svcPort, lbEps, loadBalancer, addClusterLBs, fail) ==
    IF hasHostEndpoints(lbEps.IPs) /\ gwMode = "shared"
    THEN LET r == createPerNodeVIPs(<<svc.ClusterIP>>, svcPort.Protocol, svcPort.Port,
                                    lbEps.IPs, lbEps.Port, fail)
         IN [calls |-> <<deleteLoadBalancerVIP(loadBalancer, svc.ClusterIP, svcPort.Port)>> \o r.calls,
             err |-> r.err]
    ELSE IF addClusterLBs
    THEN LET c == createLoadBalancerVIPs(loadBalancer, <<svc.ClusterIP>>, svcPort.Port,
                                         lbEps.IPs, lbEps.Port, fail)
         IN [calls |-> deleteNodeVIPs(<<svc.ClusterIP>>, svcPort.Protocol, svcPort.Port, fail) \o c,
             err |-> AnyFails(c, fail)]
    ELSE NoCalls

\* lines 103-123: the ClusterIP VIP goes to the per-node LBs when a backend is
\* host-networked under shared gateway mode, else to the cluster LB when the
\* caller asked for it; the other tier is cleared after a successful write.
\* err is the `continue` that abandons the rest of the port.
ClusterIPPlacement(svc, svcPort, lbEps, loadBalancer, addClusterLBs, fail) ==
    IF hasHostEndpoints(lbEps.IPs) /\ gwMode = "shared"
    THEN LET r == createPerNodeVIPs(<<svc.ClusterIP>>, svcPort.Protocol, svcPort.Port,
                                    lbEps.IPs, lbEps.Port, fail)
         IN IF r.err THEN r
            ELSE [calls |-> r.calls \o <<deleteLoadBalancerVIP(loadBalancer, svc.ClusterIP, svcPort.Port)>>,
                  err |-> FALSE]
    ELSE IF addClusterLBs
    THEN LET c == createLoadBalancerVIPs(loadBalancer, <<svc.ClusterIP>>, svcPort.Port,
                                         lbEps.IPs, lbEps.Port, fail)
         IN IF AnyFails(c, fail) THEN [calls |-> c, err |-> TRUE]
            ELSE [calls |-> c \o deleteNodeVIPs(<<svc.ClusterIP>>, svcPort.Protocol, svcPort.Port, fail),
                  err |-> FALSE]
    ELSE NoCalls

\* lines 124-128: external IPs, always per node; a failure is only logged
ExternalIPPlacement(svc, svcPort, lbEps, fail) ==
    IF Len(svc.ExternalIPs) > 0
    THEN createPerNodeVIPs(svc.ExternalIPs, svcPort.Protocol, svcPort.Port,
                           lbEps.IPs, lbEps.Port, fail).calls
    ELSE <<>>

\* lines 131-138: every non-empty ingress IP, per node; a failure is only logged
IngressPlacement(svc, svcPort, lbEps, fail) ==
    Flatten([i \in DOMAIN svc.Ingress |->
        IF svc.Ingress[i] = EmptyIP THEN <<>>
        ELSE createPerNodeVIPs(<<svc.Ingress[i]>>, svcPort.Protocol, svcPort.Port,
                               lbEps.IPs, lbEps.Port, fail).calls])

\* lines 95-139: the work of a port once its NodePort step went through
ClusterIPSteps(svc, svcPort, lbEps, addClusterLBs, fail) ==
    IF ~ServiceTypeHasClusterIP(svc) THEN <<>>
    ELSE IF ClusterLB(svcPort.Protocol) \in fail.noLB THEN <<>>
    ELSE LET cp == ClusterIPPlacement(svc, svcPort, lbEps, ClusterLB(svcPort.Protocol),
                                      addClusterLBs, fail)
         IN IF cp.err THEN cp.calls
            ELSE cp.calls \o ExternalIPPlacement(svc, svcPort, lbEps, fail)
                          \o IngressPlacement(svc, svcPort, lbEps, fail)

\* AddEndpointsPort going on to the ClusterIP steps after a failed NodePort step
AddEndpointsPort_NoContinue(svc, svcPort, protoPortMap, addClusterLBs, fail) ==
    IF svcPort.Name \notin DOMAIN protoPortMap[svcPort.Protocol] THEN <<>>
    ELSE IF ~SCTPSupport /\ svcPort.Protocol = "SCTP" THEN <<>>
    ELSE LET lbEps == protoPortMap[svcPort.Protocol][svcPort.Name]
         IN NodePortPlacement(svc, svcPort, lbEps, fail).calls
            \o ClusterIPSteps(svc, svcPort, lbEps, addClusterLBs, fail)

\* lines 78-140: one iteration of the loop over svc.Spec.Ports
AddEndpointsPort(svc, svcPort, protoPortMap, addClusterLBs, fail) ==
    IF svcPort.Name \notin DOMAIN protoPortMap[svcPort.Protocol] THEN <<>>
    ELSE IF ~SCTPSupport /\ svcPort.Protocol = "SCTP" THEN <<>>
    ELSE LET lbEps == protoPortMap[svcPort.Protocol][svcPort.Name]
             np == NodePortPlacement(svc, svcPort, lbEps, fail)
         IN IF np.err THEN np.calls
            ELSE np.calls \o ClusterIPSteps(svc, svcPort, lbEps, addClusterLBs, fail)

\* AddEndpoints without the test of the cluster address (lines 61-64)
AddEndpoints_NoClusterIPTest(key, ep, addClusterLBs, fail) ==
    LET svc == services[key]
        protoPortMap == getLbEndpoints(ep)
    IN IF ~svc.Exists THEN NoCalls
       ELSE IF svcNeedsIdling(svc.Annotations) /\ Len(ep.Subsets) = 0
       THEN [calls |-> <<addServiceToIdlingBalancer(key)>> \o deleteServiceFromBalancers(svc),
             err |-> FALSE]
       ELSE [calls |-> <<deleteServiceFromIdlingBalancer(key)>>
                       \o Flatten([i \in DOMAIN svc.Ports |->
                              AddEndpointsPort(svc, svc.Ports[i], protoPortMap, addClusterLBs, fail)]),
             err |-> FALSE]

\* AddEndpoints without the cleanup of the idling branch (line 71)
AddEndpoints_NoCleanup(key, ep, addClusterLBs, fail) ==
    LET svc == services[key]
        protoPortMap == getLbEndpoints(ep)
    IN IF ~svc.Exists THEN NoCalls
       ELSE IF ~IsClusterIPSet(svc) THEN NoCalls
       ELSE IF svcNeedsIdling(svc.Annotations) /\ Len(ep.Subsets) = 0
       THEN [calls |-> <<addServiceToIdlingBalancer(key)>>, err |-> FALSE]
       ELSE [calls |-> <<deleteServiceFromIdlingBalancer(key)>>
                       \o Flatten([i \in DOMAIN svc.Ports |->
                              AddEndpointsPort(svc, svc.Ports[i], protoPortMap, addClusterLBs, fail)]),
             err |-> FALSE]

\* AddEndpoints(ep, addClusterLBs): the calls it issues, in order, and its
\* return value (always nil)
AddEndpoints(key, ep, addClusterLBs, fail) ==
    LET svc == services[key]
        protoPortMap == getLbEndpoints(ep)
    IN IF ~svc.Exists THEN NoCalls
       ELSE IF ~IsClusterIPSet(svc) THEN NoCalls
       ELSE IF svcNeedsIdling(svc.Annotations) /\ Len(ep.Subsets) = 0
       THEN [calls |-> <<addServiceToIdlingBalancer(key)>> \o deleteServiceFromBalancers(svc),
             err |-> FALSE]
       ELSE [calls |-> <<deleteServiceFromIdlingBalancer(key)>>
                       \o Flatten([i \in DOMAIN svc.Ports |->
                              AddEndpointsPort(svc, svc.Ports[i], protoPortMap, addClusterLBs, fail)]),
             err |-> FALSE]

\* ---------------------------------------------------------- deleteEndpoints
\* lines 253-265: ingress IPs on the gateway and worker LB
DeleteIngress(svc, svcPort, gatewayLB, workerLB) ==
    Flatten([i \in DOMAIN svc.Ingress |->
        IF svc.Ingress[i] = EmptyIP THEN <<>>
        ELSE <<configureLoadBalancer(gatewayLB, svc.Ingress[i], svcPort.Port, <<>>),
               configureLoadBalancer(workerLB, svc.Ingress[i], svcPort.Port, <<>>)>>])

\* lines 273-282: node-port VIPs on the physical IPs
DeleteNodePort(svcPort, physicalIPs, gatewayLB, workerLB) ==
    Flatten([i \in DOMAIN physicalIPs |->
        <<configureLoadBalancer(gatewayLB, physicalIPs[i], svcPort.NodePort, <<>>),
          configureLoadBalancer(workerLB, physicalIPs[i], svcPort.NodePort, <<>>)>>])

\* lines 285-294: external IPs; the worker LB is cleared at svcPort.NodePort
DeleteExternalIPs(svc, svcPort, gatewayLB, workerLB) ==
    Flatten([i \in DOMAIN svc.ExternalIPs |->
        <<configureLoadBalancer(gatewayLB, svc.ExternalIPs[i], svcPort.Port, <<>>),
          configureLoadBalancer(workerLB, svc.ExternalIPs[i], svcPort.NodePort, <<>>)>>])

\* lines 252-294: what follows the worker LB lookup for one gateway
DeleteAfterWorkerLB(svc, svcPort, n, gatewayLB, workerLB, fail) ==
    (IF gwMode = "shared"
     THEN <<configureLoadBalancer(workerLB, svc.ClusterIP, svcPort.Port, <<>>)>>
     ELSE <<>>)
    \o DeleteIngress(svc, svcPort, gatewayLB, workerLB)
    \o (IF ServiceTypeHasNodePort(svc)
        THEN IF n \in fail.noPhys THEN <<>>
             ELSE DeleteNodePort(svcPort, getGatewayPhysicalIPs(n, fail), gatewayLB, workerLB)
                  \o DeleteExternalIPs(svc, svcPort, gatewayLB, workerLB)
        ELSE DeleteExternalIPs(svc, svcPort, gatewayLB, workerLB))

\* DeleteOnGateway clearing the gateway LB's ClusterIP VIP under the wrong mode
DeleteOnGateway_WrongMode(svc, svcPort, n, fail) ==
    IF GatewayLB(n, svcPort.Protocol) \in fail.noLB THEN <<>>
    ELSE (IF gwMode = "local"
          THEN <<configureLoadBalancer(GatewayLB(n, svcPort.Protocol), svc.ClusterIP, svcPort.Port, <<>>)>>
          ELSE <<>>)
         \o (IF WorkerLB(n, svcPort.Protocol) \in fail.noLB THEN <<>>
             ELSE DeleteAfterWorkerLB(svc, svcPort, n, GatewayLB(n, svcPort.Protocol),
                                      WorkerLB(n, svcPort.Protocol), fail))

\* lines 226-295: one iteration of the loop over the gateways
DeleteOnGateway(svc, svcPort, n, fail) ==
    IF GatewayLB(n, svcPort.Protocol) \in fail.noLB THEN <<>>
    ELSE (IF gwMode = "shared"
          THEN <<configureLoadBalancer(GatewayLB(n, svcPort.Protocol), svc.ClusterIP, svcPort.Port, <<>>)>>
          ELSE <<>>)
         \o (IF WorkerLB(n, svcPort.Protocol) \in fail.noLB THEN <<>>
             ELSE DeleteAfterWorkerLB(svc, svcPort, n, GatewayLB(n, svcPort.Protocol),
                                      WorkerLB(n, svcPort.Protocol), fail))

\* DeleteEndpointsPort leaving the port when the cluster-tier clear fails
DeleteEndpointsPort_AbortOnError(svc, svcPort, gateways, fail) ==
    IF ClusterLB(svcPort.Protocol) \in fail.noLB THEN <<>>
    ELSE LET c == configureLoadBalancer(ClusterLB(svcPort.Protocol), svc.ClusterIP, svcPort.Port, <<>>)
         IN IF CallFails(c, fail) THEN <<c>>
            ELSE <<c>> \o Flatten([i \in DOMAIN gateways |->
                              DeleteOnGateway(svc, svcPort, gateways[i], fail)])

\* lines 214-296: one iteration of the loop over svc.Spec.Ports
DeleteEndpointsPort(svc, svcPort, gateways, fail) ==
    IF ClusterLB(svcPort.Protocol) \in fail.noLB THEN <<>>
    ELSE <<configureLoadBalancer(ClusterLB(svcPort.Protocol), svc.ClusterIP, svcPort.Port, <<>>)>>
         \o Flatten([i \in DOMAIN gateways |-> DeleteOnGateway(svc, svcPort, gateways[i], fail)])

\* deleteEndpoints without the return that ends the idling branch
deleteEndpoints_NoReturn(key, fail) ==
    LET svc == services[key]
        gateways == getOvnGateways(fail)
        idle == IF svcNeedsIdling(svc.Annotations)
                THEN <<addServiceToIdlingBalancer(key)>> \o deleteServiceFromBalancers(svc)
                ELSE <<>>
    IN IF ~svc.Exists THEN NoCalls
       ELSE IF ~IsClusterIPSet(svc) THEN NoCalls
       ELSE [calls |-> idle \o <<deleteServiceFromIdlingBalancer(key)>>
                       \o Flatten([i \in DOMAIN svc.Ports |->
                              DeleteEndpointsPort(svc, svc.Ports[i], gateways, fail)]),
             err |-> FALSE]

\* deleteEndpoints returning an error when one of its clears failed
deleteEndpoints_ReturnsError(key, fail) ==
    LET svc == services[key]
        gateways == getOvnGateways(fail)
        clears == Flatten([i \in DOMAIN svc.Ports |->
                      DeleteEndpointsPort(svc, svc.Ports[i], gateways, fail)])
    IN IF ~svc.Exists THEN NoCalls
       ELSE IF ~IsClusterIPSet(svc) THEN NoCalls
       ELSE IF svcNeedsIdling(svc.Annotations)
       THEN [calls |-> <<addServiceToIdlingBalancer(key)>> \o deleteServiceFromBalancers(svc),
             err |-> FALSE]
       ELSE [calls |-> <<deleteServiceFromIdlingBalancer(key)>> \o clears,
             err |-> AnyFails(clears, fail)]

\* deleteEndpoints(ep): the calls it issues, in order, and its return value
\* (always nil)
deleteEndpoints(key, fail) ==
    LET svc == services[key]
        gateways == getOvnGateways(fail)
    IN IF ~svc.Exists THEN NoCalls
       ELSE IF ~IsClusterIPSet(svc) THEN NoCalls
       ELSE IF svcNeedsIdling(svc.Annotations)
       THEN [calls |-> <<addServiceToIdlingBalancer(key)>> \o deleteServiceFromBalancers(svc),
             err |-> FALSE]
       ELSE [calls |-> <<deleteServiceFromIdlingBalancer(key)>>
                       \o Flatten([i \in DOMAIN svc.Ports |->
                              DeleteEndpointsPort(svc, svc.Ports[i], gateways, fail)]),
             err |-> FALSE]

\* --------------------------------------------------------- handleNodePortLB
Namespaces == <<"ns1", "ns2">>

\* the calls on the services controller and on the watch factory
RequestFullSync == OtherCall("fullSync", NoKey)
GetNamespaces == OtherCall("getNamespaces", NoKey)
GetEndpoints(ns) == OtherCall("getEndpoints", <<ns, "">>)

\* two runs of calls one after the other; the error is the second's
Joined(first, rest) == [calls |-> first.calls \o rest.calls, err |-> rest.err]

\* ReplayEndpoints asking AddEndpoints for the cluster tier too
RECURSIVE ReplayEndpoints_WithClusterTier(_, _)
ReplayEndpoints_WithClusterTier(eps, fail) ==
    IF eps = <<>> THEN NoCalls
    ELSE LET r == AddEndpoints(Head(eps).key, Head(eps).ep, TRUE, fail)
         IN IF r.err THEN r
            ELSE LET rest == ReplayEndpoints_WithClusterTier(Tail(eps), fail)
                 IN [calls |-> r.calls \o rest.calls, err |-> rest.err]

\* lines 177-183: AddEndpoints(ep, false) for each Endpoints object of a
\* namespace; the first error ends the whole bootstrap.  eps is a sequence
\* of [key, ep].
RECURSIVE ReplayEndpoints(_, _)
\* the rest of the loop after one AddEndpoints: r is what that call did
ReplayRest(r, eps, fail) == IF r.err THEN r ELSE Joined(r, ReplayEndpoints(eps, fail))
ReplayEndpoints(eps, fail) ==
    IF eps = <<>> THEN NoCalls
    ELSE ReplayRest(AddEndpoints(Head(eps).key, Head(eps).ep, FALSE, fail), Tail(eps), fail)

\* lines 171-184: the loop over the namespaces; store maps a namespace to the
\* Endpoints objects GetEndpoints lists for it
RECURSIVE ReplayNamespaces(_, _, _)
\* the rest of the loop after one namespace: r is what its replay did
ReplayNamespacesRest(r, nss, store, fail) ==
    IF r.err THEN r ELSE Joined(r, ReplayNamespaces(nss, store, fail))
ReplayNamespaces(nss, store, fail) ==
    IF nss = <<>> THEN NoCalls
    ELSE ReplayNamespacesRest(
             Joined([calls |-> <<GetEndpoints(Head(nss))>>, err |-> FALSE],
                    IF Head(nss) \in fail.noEndpoints THEN NoCalls
                    ELSE ReplayEndpoints(store[Head(nss)], fail)),
             Tail(nss), store, fail)

\* handleNodePortLB without the return that follows a successful full sync
handleNodePortLB_SyncThenReplay(node, store, fail) ==
    IF ~gwIfaceNone /\ getGatewayPhysicalIPs(node, fail) = <<>>
    THEN [calls |-> <<>>, err |-> TRUE]
    ELSE LET sync == IF svcController THEN <<RequestFullSync>> ELSE <<>>
         IN IF svcController /\ fail.noFullSync THEN [calls |-> sync, err |-> TRUE]
            ELSE IF fail.noNamespaces THEN [calls |-> sync \o <<GetNamespaces>>, err |-> TRUE]
            ELSE LET r == ReplayNamespaces(Namespaces, store, fail)
                 IN [calls |-> sync \o <<GetNamespaces>> \o r.calls, err |-> r.err]

\* handleNodePortLB without the check of the gateway's physical IPs
handleNodePortLB_NoGatewayCheck(node, store, fail) ==
    IF svcController
    THEN [calls |-> <<RequestFullSync>>, err |-> fail.noFullSync]
    ELSE IF fail.noNamespaces THEN [calls |-> <<GetNamespaces>>, err |-> TRUE]
    ELSE LET r == ReplayNamespaces(Namespaces, store, fail)
         IN [calls |-> <<GetNamespaces>> \o r.calls, err |-> r.err]

\* handleNodePortLB(node): the calls it issues, the listings of the watch
\* factory among them, and whether it returns an error
handleNodePortLB(node, store, fail) ==
    IF ~gwIfaceNone /\ getGatewayPhysicalIPs(node, fail) = <<>>
    THEN [calls |-> <<>>, err |-> TRUE]
    ELSE IF svcController
    THEN [calls |-> <<RequestFullSync>>, err |-> fail.noFullSync]
    ELSE IF fail.noNamespaces THEN [calls |-> <<GetNamespaces>>, err |-> TRUE]
    ELSE Joined([calls |-> <<GetNamespaces>>, err |-> FALSE],
                ReplayNamespaces(Namespaces, store, fail))

\* ------------------------------------------------------------------- inputs
KeyA == <<"ns1", "a">>
KeyB == <<"ns2", "b">>
Keys == {KeyA, KeyB}

\* service ports; the node port is allocated only for NodePort/LoadBalancer
SvcPort(name, proto, port, nodePort, type) ==
    [Name |-> name, Protocol |-> proto, Port |-> port,
     NodePort |-> IF type \in {"NodePort", "LoadBalancer"} THEN nodePort ELSE 0]
HTTP(type) == SvcPort("http", "TCP", 80, 30080, type)
DNS(type) == SvcPort("dns", "UDP", 53, 30053, type)
SCTP(type) == SvcPort("sctp", "SCTP", 90, 30090, type)

IdledAt == <<"idling.alpha.openshift.io", "idled-at">>
OtherAnnotation == <<"example.com", "owner">>

Service(cip, type, ports, ext, ing, ann) ==
    [Exists |-> TRUE, ClusterIP |-> cip, Type |-> type, Ports |-> ports,
     ExternalIPs |-> ext, Ingress |-> ing, Annotations |-> ann]

ServicesOfA ==
    { Service(SvcIPA, "ClusterIP", <<HTTP("ClusterIP"), DNS("ClusterIP")>>, <<>>, <<>>, {}),
      Service(SvcIPA, "ClusterIP", <<HTTP("ClusterIP")>>, <<ExtIP>>, <<>>,
              {IdledAt, OtherAnnotation}),
      Service(SvcIPA, "NodePort", <<HTTP("NodePort"), DNS("NodePort")>>, <<ExtIP>>, <<>>, {}),
      Service(SvcIPA, "LoadBalancer", <<HTTP("LoadBalancer")>>, <<>>, <<EmptyIP, IngIP>>, {}),
      Service(SvcIPA, "ClusterIP", <<HTTP("ClusterIP"), SCTP("ClusterIP")>>, <<>>, <<>>,
              {OtherAnnotation}),
      Service(ClusterIPNone, "ClusterIP", <<HTTP("ClusterIP")>>, <<>>, <<>>, {}),
      Service(EmptyIP, "ExternalName", <<HTTP("ExternalName")>>, <<>>, <<>>, {}),
      NoService }

ServicesOfB ==
    { Service(SvcIPB, "ClusterIP", <<HTTP("ClusterIP")>>, <<>>, <<>>, {}), NoService }

\* Endpoints objects: ep.Subsets, each with its ready addresses and its ports
EpPort(name, proto, port) == [Name |-> name, Protocol |-> proto, Port |-> port]
EpHTTP == EpPort("http", "TCP", 8080)
EpDNS == EpPort("dns", "UDP", 5353)
EpSCTP == EpPort("sctp", "SCTP", 9090)
Subset(addrs, ports) == [Addresses |-> addrs, Ports |-> ports]
Endpoints(subsets) == [Subsets |-> subsets]

AllPorts == <<EpHTTP, EpDNS, EpSCTP>>
EpNone == Endpoints(<<>>)
EpNotReady == Endpoints(<<Subset(<<>>, AllPorts)>>)
EpCluster1 == Endpoints(<<Subset(<<PodIP1>>, AllPorts)>>)
EpHost == Endpoints(<<Subset(<<HostIP>>, AllPorts)>>)
EpHostHTTP == Endpoints(<<Subset(<<PodIP2, HostIP>>, <<EpHTTP>>)>>)
EpHTTPOnly == Endpoints(<<Subset(<<PodIP2>>, <<EpHTTP>>), Subset(<<PodIP1>>, <<EpHTTP>>)>>)

EndpointsOf(key) ==
    IF key = KeyA
    THEN {EpNone, EpNotReady, EpCluster1, EpHost, EpHTTPOnly, EpHostHTTP}
    ELSE {EpCluster1, EpHost}

\* what GetEndpoints lists for the namespaces: at most one object per key
StoreOf(epA, epB) == [ns1 |-> epA, ns2 |-> epB]
Stores ==
    { StoreOf(a, b) :
        a \in {<<>>} \cup {<<[key |-> KeyA, ep |-> e]>> : e \in {EpNone, EpCluster1, EpHost}},
        b \in {<<>>, <<[key |-> KeyB, ep |-> EpHost]>>} }
NoStore == StoreOf(<<>>, <<>>)

\* --------------------------------------------------------------- operations
\* Observations of the LB backend: the ClusterIP VIP of a service port on the
\* cluster tier and on the per-node tier
ClusterVIP(L, svc, svcPort) ==
    VIPTargets(L, ClusterLB(svcPort.Protocol), <<svc.ClusterIP, svcPort.Port>>)
GatewayVIP(L, n, svc, svcPort) ==
    VIPTargets(L, GatewayLB(n, svcPort.Protocol), <<svc.ClusterIP, svcPort.Port>>)
WorkerVIP(L, n, svc, svcPort) ==
    VIPTargets(L, WorkerLB(n, svcPort.Protocol), <<svc.ClusterIP, svcPort.Port>>)
OnClusterTier(L, svc, svcPort) == ClusterVIP(L, svc, svcPort) # <<>>
OnPerNodeTier(L, svc, svcPort) ==
    \E n \in Nodes : GatewayVIP(L, n, svc, svcPort) # <<>> \/ WorkerVIP(L, n, svc, svcPort) # <<>>

\* History: where the ClusterIP VIP of each port of the operation's service
\* was before the operation ran
Placement(L, key) ==
    IF key \in Keys
    THEN [i \in DOMAIN services[key].Ports |->
             [cluster |-> OnClusterTier(L, services[key], services[key].Ports[i]),
              perNode |-> OnPerNodeTier(L, services[key], services[key].Ports[i])]]
    ELSE <<>>

Last(op, key, ep, addClusterLBs, node, store, fail, err) ==
    [op |-> op, key |-> key, ep |-> ep, addClusterLBs |-> addClusterLBs, node |-> node,
     store |-> store, fail |-> fail, err |-> err, pre |-> Placement(lbs, key)]

\* A configuration flag the services never read is not varied: SCTP support
\* matters to a service with an SCTP port, the empty-LB-events flag to an
\* annotated service.  The second service and the bootstrap flags are varied
\* beside the plain two-port service.
HasSCTPPort(svc) == \E i \in DOMAIN svc.Ports : svc.Ports[i].Protocol = "SCTP"
PlainService == Service(SvcIPA, "ClusterIP", <<HTTP("ClusterIP"), DNS("ClusterIP")>>, <<>>, <<>>, {})

Deployment(mode, sctp, idle, ctrl, ifnone, a, b) ==
    /\ (~sctp => HasSCTPPort(a))
    /\ (idle => a.Annotations # {})
    /\ (b.Exists => a \in {PlainService, NoService})
    /\ (ctrl \/ ifnone => a = PlainService /\ ~b.Exists /\ mode = "shared")

\* no AddEndpoints call is in flight
NoConc == [active |-> FALSE, older |-> EpNone, newer |-> EpNone, pcOld |-> 0, pcNew |-> 0,
           overlap |-> FALSE, first |-> "none"]

InitBase ==
    /\ gwMode \in {"shared", "local"}
    /\ SCTPSupport \in BOOLEAN
    /\ emptyLbEvents \in BOOLEAN
    /\ svcController \in BOOLEAN
    /\ gwIfaceNone \in BOOLEAN
    /\ \E a \in ServicesOfA, b \in ServicesOfB :
           /\ Deployment(gwMode, SCTPSupport, emptyLbEvents, svcController, gwIfaceNone, a, b)
           /\ services = (KeyA :> a) @@ (KeyB :> b)
    /\ lbs = {}
    /\ idling = {}
    /\ last = [op |-> "init", key |-> NoKey, ep |-> EpNone, addClusterLBs |-> FALSE, node |-> 0,
               store |-> NoStore, fail |-> NoFail, err |-> FALSE, pre |-> <<>>]
    /\ faulted = FALSE

\* no helper has been called on its own
NoRet == [fn |-> "none", ep |-> [Subsets |-> <<>>], ips |-> <<>>,
          table |-> [p \in Protocols |-> <<>>], host |-> FALSE]

Init == InitBase /\ conc = NoConc /\ ret = NoRet

Run(r, fail) ==
    LET st == ApplyCalls([lbs |-> lbs, idling |-> idling], r.calls, fail)
    IN /\ lbs' = st.lbs
       /\ idling' = st.idling
       /\ faulted' = (faulted \/ fail # NoFail)
       /\ UNCHANGED <<config, conc, ret>>

\* OnEndpointsAdded/Updated, and any other caller of AddEndpoints
AddEndpointsOp(key, ep, addClusterLBs, fail) ==
    LET r == AddEndpoints(key, ep, addClusterLBs, fail)
    IN /\ Run(r, fail)
       /\ last' = Last("add", key, ep, addClusterLBs, 0, NoStore, fail, r.err)

\* OnEndpointsDeleted
DeleteEndpointsOp(key, fail) ==
    LET r == deleteEndpoints(key, fail)
    IN /\ Run(r, fail)
       /\ last' = Last("delete", key, EpNone, FALSE, 0, NoStore, fail, r.err)

\* OnNodeGatewayReady
HandleNodePortLBOp(node, store, fail) ==
    LET r == handleNodePortLB(node, store, fail)
    IN /\ Run(r, fail)
       /\ last' = Last("bootstrap", NoKey, EpNone, FALSE, node, store, fail, r.err)

\* the serialized operations, the LB backend never failing
Next ==
    \/ \E key \in Keys : \E ep \in EndpointsOf(key), b \in BOOLEAN :
           AddEndpointsOp(key, ep, b, NoFail)
    \/ \E key \in Keys : DeleteEndpointsOp(key, NoFail)
    \/ \E node \in Nodes, store \in Stores : HandleNodePortLBOp(node, store, NoFail)

Spec == Init /\ [][Next]_vars

\* ------------------------------------------------- a failing LB backend
\* The backend double fails one target during one operation: the writes of one
\* load balancer, the lookup of one load balancer, the physical IPs of one
\* node, or the listing of the gateways.
FaultyLBs == {lb \in AllLBs : lb[3] \in {"TCP", "UDP"}}
Faults ==
    {[NoFail EXCEPT !.lb = {lb}] : lb \in FaultyLBs}
    \cup {[NoFail EXCEPT !.noLB = {lb}] : lb \in FaultyLBs}
    \cup {[NoFail EXCEPT !.noPhys = {n}] : n \in Nodes}
    \cup {[NoFail EXCEPT !.noGateways = TRUE]}

NodePortService ==
    Service(SvcIPA, "NodePort", <<HTTP("NodePort"), DNS("NodePort")>>, <<ExtIP>>, <<>>, {})
LoadBalancerService ==
    Service(SvcIPA, "LoadBalancer", <<HTTP("LoadBalancer")>>, <<>>, <<EmptyIP, IngIP>>, {})

IdledService ==
    Service(SvcIPA, "ClusterIP", <<HTTP("ClusterIP")>>, <<ExtIP>>, <<>>, {IdledAt, OtherAnnotation})

InitFail ==
    /\ Init
    /\ services[KeyA] \in {NodePortService, LoadBalancerService, IdledService}

FaultyAdd(key, ep, addClusterLBs, fail) == AddEndpointsOp(key, ep, addClusterLBs, fail)
FaultyDelete(key, fail) == DeleteEndpointsOp(key, fail)

\* failure-free Endpoints events, then one operation against the failing backend
NextFail ==
    \/ ~faulted /\ \E ep \in EndpointsOf(KeyA) : AddEndpointsOp(KeyA, ep, TRUE, NoFail)
    \/ ~faulted /\ DeleteEndpointsOp(KeyA, NoFail)
    \/ ~faulted /\ \E ep \in {EpCluster1, EpHost}, b \in BOOLEAN, fail \in Faults :
           FaultyAdd(KeyA, ep, b, fail)
    \/ ~faulted /\ \E fail \in Faults : FaultyDelete(KeyA, fail)

SpecFail == InitFail /\ [][NextFail]_vars

\* ------------------------------------------- two AddEndpoints calls at once
\* AddEndpoints takes no lock and reads nothing of the LB backend: a call is
\* the sequence of backend calls its Endpoints snapshot determines, each one an
\* atomic round trip.  Two calls for the same service, one from an older and
\* one from a newer snapshot, issue theirs in any interleaving.
EpCluster2 == Endpoints(<<Subset(<<PodIP2>>, AllPorts)>>)
\* <<older, newer>>: a host backend appears, disappears, a cluster backend changes
SnapshotPairs == {<<EpCluster1, EpHost>>, <<EpHost, EpCluster1>>, <<EpCluster1, EpCluster2>>}
CallsOf(ep) == AddEndpoints(KeyA, ep, TRUE, NoFail).calls

InitConc ==
    /\ InitBase
    /\ services[KeyA] = PlainService /\ ~services[KeyB].Exists
    /\ ~svcController /\ ~gwIfaceNone
    /\ \E pair \in SnapshotPairs :
           conc = [NoConc EXCEPT !.active = TRUE, !.older = pair[1], !.newer = pair[2]]
    /\ ret = NoRet

\* the next backend call of one of the two AddEndpoints calls
IssueCall(calls, pc, otherCalls, otherPc, who) ==
    LET st == ApplyCall([lbs |-> lbs, idling |-> idling], calls[pc + 1], NoFail)
    IN /\ conc.active
       /\ pc < Len(calls)
       /\ lbs' = st.lbs
       /\ idling' = st.idling
       /\ conc' = [conc EXCEPT
               !.pcOld = IF who = "old" THEN pc + 1 ELSE @,
               !.pcNew = IF who = "new" THEN pc + 1 ELSE @,
               !.overlap = @ \/ (0 < otherPc /\ otherPc < Len(otherCalls)),
               !.first = IF @ = "none" /\ pc + 1 = Len(calls) THEN who ELSE @]
       /\ UNCHANGED <<config, last, faulted, ret>>

OlderStep == IssueCall(CallsOf(conc.older), conc.pcOld, CallsOf(conc.newer), conc.pcNew, "old")
NewerStep == IssueCall(CallsOf(conc.newer), conc.pcNew, CallsOf(conc.older), conc.pcOld, "new")

NextConc == OlderStep \/ NewerStep

SpecConc == InitConc /\ [][NextConc]_vars

\* ------------------------------------------- a service that idles and wakes
\* The watch factory hands every call the service as it is then: its
\* annotations change between the Endpoints events when the service is idled
\* or woken.
AnnotationSets == {{}, {OtherAnnotation}, {IdledAt, OtherAnnotation}}

UpdateService(key, annotations) ==
    /\ services[key].Exists
    /\ annotations # services[key].Annotations
    /\ services' = [services EXCEPT ![key].Annotations = annotations]
    /\ last' = [last EXCEPT !.op = "update", !.key = key]
    /\ UNCHANGED <<gwMode, SCTPSupport, emptyLbEvents, svcController, gwIfaceNone,
                   lbs, idling, faulted, conc, ret>>

InitIdle ==
    /\ Init
    /\ services[KeyA] = IdledService

NextIdle ==
    \/ \E ep \in {EpNone, EpNotReady, EpCluster1, EpHost} : AddEndpointsOp(KeyA, ep, TRUE, NoFail)
    \/ DeleteEndpointsOp(KeyA, NoFail)
    \/ \E annotations \in AnnotationSets : UpdateService(KeyA, annotations)

SpecIdle == InitIdle /\ [][NextIdle]_vars

\* ------------------------------------- a node-ready event and what can fail
\* Besides the faults of the LB backend: RequestFullSync fails, the namespaces
\* cannot be listed, the Endpoints of one namespace cannot be listed.
BootFaults ==
    Faults
    \cup {[NoFail EXCEPT !.noFullSync = TRUE], [NoFail EXCEPT !.noNamespaces = TRUE]}
    \cup {[NoFail EXCEPT !.noEndpoints = {Namespaces[i]}] : i \in DOMAIN Namespaces}

FaultyBootstrap(node, store, fail) == HandleNodePortLBOp(node, store, fail)

\* failure-free Endpoints events, then one node-ready event
NextBoot ==
    \/ ~faulted /\ \E key \in Keys : \E ep \in {EpCluster1, EpHost} :
           AddEndpointsOp(key, ep, TRUE, NoFail)
    \/ ~faulted /\ \E node \in Nodes, store \in Stores, fail \in BootFaults :
           FaultyBootstrap(node, store, fail)

SpecBoot == Init /\ [][NextBoot]_vars

\* ------------------------------------------- the helpers called on their own
\* getLbEndpoints and hasHostEndpoints read nothing but their argument (and
\* config.Default.ClusterSubnets): each is applied once to an argument drawn
\* from the Endpoints objects and address lists the API server can hand out.
MaxSubsets == 2
MaxAddresses == 2

EpHTTPAlt == EpPort("http", "TCP", 8081)    \* the same pair, another target port
EpHTTPUDP == EpPort("http", "UDP", 8080)    \* the same name, another protocol
EpZero == EpPort("zero", "TCP", 0)          \* a port number outside 1..65535
EpICMP == EpPort("icmp", "ICMP", 7)         \* a protocol OVN does not balance

\* the port lists of a subset: port names are unique within a subset
SubsetPorts == {<<>>, <<EpHTTP>>, <<EpHTTPAlt>>, <<EpHTTP, EpDNS>>, <<EpZero, EpHTTP>>,
                <<EpICMP, EpDNS>>, <<EpHTTPUDP>>}
SubsetAddresses == {<<>>, <<PodIP1>>, <<PodIP2, PodIP1>>}
SubsetsOf == {Subset(a, p) : a \in SubsetAddresses, p \in SubsetPorts}

RECURSIVE SeqsUpTo(_, _)
SeqsUpTo(S, n) ==
    IF n = 0 THEN {<<>>}
    ELSE LET shorter == SeqsUpTo(S, n - 1)
         IN shorter \cup {Append(q, x) : q \in {t \in shorter : Len(t) = n - 1}, x \in S}

EndpointsObjects == {Endpoints(ss) : ss \in SeqsUpTo(SubsetsOf, MaxSubsets)}
EndpointIPs == SeqsUpTo({PodIP1, PodIP3, HostIP, MalformedIP}, MaxAddresses)

InitPure ==
    /\ InitBase
    /\ gwMode = "shared" /\ SCTPSupport /\ ~emptyLbEvents
    /\ ~svcController /\ ~gwIfaceNone
    /\ services[KeyA] = PlainService /\ ~services[KeyB].Exists
    /\ conc = NoConc
    /\ \/ \E ep \in EndpointsObjects : ret = [NoRet EXCEPT !.ep = ep]
       \/ \E ips \in EndpointIPs : ret = [NoRet EXCEPT !.ips = ips]

GetLbEndpointsOp ==
    /\ ret.fn = "none"
    /\ ret' = [ret EXCEPT !.fn = "getLbEndpoints", !.table = getLbEndpoints(ret.ep)]
    /\ UNCHANGED <<config, lbs, idling, last, faulted, conc>>

HasHostEndpointsOp ==
    /\ ret.fn = "none"
    /\ ret' = [ret EXCEPT !.fn = "hasHostEndpoints", !.host = hasHostEndpoints(ret.ips)]
    /\ UNCHANGED <<config, lbs, idling, last, faulted, conc>>

NextPure == GetLbEndpointsOp \/ HasHostEndpointsOp

SpecPure == InitPure /\ [][NextPure]_vars

\* ============================================================== properties
\* what the claims speak of
Processed(key) == key \in Keys /\ services[key].Exists /\ IsClusterIPSet(services[key])
IdlePath(svc, ep) == svcNeedsIdling(svc.Annotations) /\ Len(ep.Subsets) = 0
Backed(svcPort, ep) == svcPort.Name \in DOMAIN getLbEndpoints(ep)[svcPort.Protocol]
LbEpsOf(svcPort, ep) == getLbEndpoints(ep)[svcPort.Protocol][svcPort.Name]
NewTargets(svcPort, ep) == Targets(LbEpsOf(svcPort, ep).IPs, LbEpsOf(svcPort, ep).Port)
SCTPRejected(svcPort) == ~SCTPSupport /\ svcPort.Protocol = "SCTP"
AllAddresses(ep) == Flatten([i \in DOMAIN ep.Subsets |-> ep.Subsets[i].Addresses])
NoFailure(fail) == fail = NoFail
LastSvc == services[last.key]
\* a completed AddEndpoints on a service it reconciles, nothing having failed
AddDone == last.op = "add" /\ Processed(last.key) /\ NoFailure(last.fail)
DeleteDone == last.op = "delete" /\ Processed(last.key) /\ NoFailure(last.fail)

\* C1 -- placement invariant: in every state reached by serialized, failure-free
\* AddEndpoints, deleteEndpoints and handleNodePortLB operations, no declared
\* service port has its (clusterIP, port) VIP non-empty on the cluster LB and on
\* a node's gateway or worker LB at the same time.
C1_PlacementInvariant ==
    \A key \in Keys : \A i \in DOMAIN services[key].Ports :
        ~(OnClusterTier(lbs, services[key], services[key].Ports[i])
          /\ OnPerNodeTier(lbs, services[key], services[key].Ports[i]))

\* a port whose VIP was on the cluster tier is on the per-node tier after the add
C1_Witness ==
    /\ AddDone
    /\ \E i \in DOMAIN LastSvc.Ports :
           last.pre[i].cluster /\ OnPerNodeTier(lbs, LastSvc, LastSvc.Ports[i])

C3_Original ==
    (AddDone /\ ~IdlePath(LastSvc, last.ep) /\ ~hasHostEndpoints(AllAddresses(last.ep))) =>
    \A i \in DOMAIN LastSvc.Ports :
        LET sp == LastSvc.Ports[i] IN
        Backed(sp, last.ep) =>
            /\ OnClusterTier(lbs, LastSvc, sp) # OnPerNodeTier(lbs, LastSvc, sp)
            /\ (last.addClusterLBs => OnClusterTier(lbs, LastSvc, sp))

\* C3 as amended -- with addClusterLBs true every backed port that is not a
\* rejected SCTP port has its cluster VIP at the new backends and no per-node
\* VIP; with addClusterLBs false the ClusterIP placement of such a port is left
\* as it was found, at most one tier holding it.
C3_PlacementExclusivity ==
    (AddDone /\ ~IdlePath(LastSvc, last.ep) /\ ~hasHostEndpoints(AllAddresses(last.ep))) =>
    \A i \in DOMAIN LastSvc.Ports :
        LET sp == LastSvc.Ports[i] IN
        (Backed(sp, last.ep) /\ ~SCTPRejected(sp)) =>
            IF last.addClusterLBs
            THEN /\ ClusterVIP(lbs, LastSvc, sp) = NewTargets(sp, last.ep)
                 /\ ~OnPerNodeTier(lbs, LastSvc, sp)
            ELSE /\ OnClusterTier(lbs, LastSvc, sp) = last.pre[i].cluster
                 /\ OnPerNodeTier(lbs, LastSvc, sp) = last.pre[i].perNode
                 /\ ~(OnClusterTier(lbs, LastSvc, sp) /\ OnPerNodeTier(lbs, LastSvc, sp))

\* cluster-only backends reconciled onto the cluster tier from a per-node placement
C3_Witness ==
    /\ AddDone /\ last.addClusterLBs /\ ~IdlePath(LastSvc, last.ep)
    /\ ~hasHostEndpoints(AllAddresses(last.ep))
    /\ \E i \in DOMAIN LastSvc.Ports :
           /\ Backed(LastSvc.Ports[i], last.ep)
           /\ last.pre[i].perNode
           /\ OnClusterTier(lbs, LastSvc, LastSvc.Ports[i])

\* no VIP at the service's cluster address on any cluster or per-node LB
NoClusterIPVIP(L, svc) == \A e \in L : e.vip[1] # svc.ClusterIP
NoReadyAddress(ep) == \A i \in DOMAIN ep.Subsets : ep.Subsets[i].Addresses = <<>>

\* C4 as stated -- idling exclusivity: after AddEndpoints on an idling-eligible
\* service whose Endpoints has no ready address, the service is registered on
\* the idling balancer and no VIP of its cluster address is left on any tier.
C4_Original ==
    (AddDone /\ svcNeedsIdling(LastSvc.Annotations) /\ NoReadyAddress(last.ep)) =>
        /\ last.key \in idling
        /\ NoClusterIPVIP(lbs, LastSvc)

\* C4 as amended -- the same for an Endpoints object with zero subsets.
C4_IdlingExclusivity ==
    (AddDone /\ svcNeedsIdling(LastSvc.Annotations) /\ Len(last.ep.Subsets) = 0) =>
        /\ last.key \in idling
        /\ NoClusterIPVIP(lbs, LastSvc)

\* the service went idle with VIPs of a non-idle period in place
C4_Witness ==
    /\ AddDone /\ svcNeedsIdling(LastSvc.Annotations) /\ Len(last.ep.Subsets) = 0
    /\ \E i \in DOMAIN LastSvc.Ports : last.pre[i].cluster \/ last.pre[i].perNode
    /\ last.key \in idling

\* C5 -- after a failure-free deleteEndpoints on a non-idled service, every
\* declared port has (clusterIP, port) empty on the cluster LB and on every
\* node's gateway and worker LB, in either gateway mode.
C5_DeleteClearsClusterIP ==
    (DeleteDone /\ ~svcNeedsIdling(LastSvc.Annotations)) =>
    \A i \in DOMAIN LastSvc.Ports :
        /\ ~OnClusterTier(lbs, LastSvc, LastSvc.Ports[i])
        /\ ~OnPerNodeTier(lbs, LastSvc, LastSvc.Ports[i])

\* the delete found a port on the per-node tier and another on the cluster tier
C5_Witness ==
    /\ DeleteDone /\ ~svcNeedsIdling(LastSvc.Annotations)
    /\ \E i, j \in DOMAIN LastSvc.Ports : last.pre[i].perNode /\ last.pre[j].cluster

\* the per-node VIPs AddEndpoints places beside the ClusterIP one
IngressVIPs(svc, svcPort) ==
    {<<svc.Ingress[i], svcPort.Port>> : i \in {j \in DOMAIN svc.Ingress : svc.Ingress[j] # EmptyIP}}
NodePortVIPs(svc, svcPort) ==
    IF ServiceTypeHasNodePort(svc) THEN {<<PhysicalIP(n), svcPort.NodePort>> : n \in Nodes} ELSE {}
ExternalVIPs(svc, svcPort) ==
    {<<svc.ExternalIPs[i], svcPort.Port>> : i \in DOMAIN svc.ExternalIPs}
PerNodeLBs == {lb \in AllLBs : lb[1] \in {"gw", "wk"}}
EmptyOnPerNodeLBs(L, vips) == \A e \in L : ~(e.lb \in PerNodeLBs /\ e.vip \in vips)

\* C6 -- after a failure-free deleteEndpoints on a non-idled service, the
\* ingress-IP, node-port and external-IP VIPs that AddEndpoints places are empty
\* on the gateway and the worker LB of every node.
C6_DeleteClearsOtherVIPs ==
    (DeleteDone /\ ~svcNeedsIdling(LastSvc.Annotations)) =>
    \A i \in DOMAIN LastSvc.Ports :
        EmptyOnPerNodeLBs(lbs, IngressVIPs(LastSvc, LastSvc.Ports[i])
                               \cup NodePortVIPs(LastSvc, LastSvc.Ports[i])
                               \cup ExternalVIPs(LastSvc, LastSvc.Ports[i]))

\* the VIPs of a service, and of one of its ports, in the LB backend
PortVIPs(svc, svcPort) ==
    {<<svc.ClusterIP, svcPort.Port>>} \cup IngressVIPs(svc, svcPort)
    \cup NodePortVIPs(svc, svcPort) \cup ExternalVIPs(svc, svcPort)
ServiceVIPs(svc) == UNION {PortVIPs(svc, svc.Ports[i]) : i \in DOMAIN svc.Ports}
StateOf(L, vips) == {e \in L : e.vip \in vips}
\* what the last AddEndpoints call produces on an empty LB backend
FromEmpty ==
    ApplyCalls([lbs |-> {}, idling |-> {}],
               AddEndpoints(last.key, last.ep, last.addClusterLBs, NoFail).calls, NoFail).lbs

\* C7 as stated -- stale-entry convergence: after a failure-free
\* AddEndpoints(ep, true) on a non-idled service, the VIPs of the service are
\* those the same call produces on an empty LB backend.
C7_Original ==
    (AddDone /\ last.addClusterLBs /\ ~IdlePath(LastSvc, last.ep)) =>
        StateOf(lbs, ServiceVIPs(LastSvc)) = StateOf(FromEmpty, ServiceVIPs(LastSvc))

\* C7 as amended -- the same for the VIPs of the service ports that the current
\* snapshot backs and that are not rejected SCTP ports.
C7_StaleEntryConvergence ==
    (AddDone /\ last.addClusterLBs /\ ~IdlePath(LastSvc, last.ep)) =>
    \A i \in DOMAIN LastSvc.Ports :
        (Backed(LastSvc.Ports[i], last.ep) /\ ~SCTPRejected(LastSvc.Ports[i])) =>
            StateOf(lbs, PortVIPs(LastSvc, LastSvc.Ports[i]))
                = StateOf(FromEmpty, PortVIPs(LastSvc, LastSvc.Ports[i]))

\* a backed port converged from another placement while an unbacked port keeps
\* the VIP of an earlier snapshot
C7_Witness ==
    /\ AddDone /\ last.addClusterLBs /\ ~IdlePath(LastSvc, last.ep)
    /\ \E i, j \in DOMAIN LastSvc.Ports :
           /\ Backed(LastSvc.Ports[i], last.ep) /\ last.pre[i].perNode
           /\ OnClusterTier(lbs, LastSvc, LastSvc.Ports[i])
           /\ ~Backed(LastSvc.Ports[j], last.ep)
           /\ OnPerNodeTier(lbs, LastSvc, LastSvc.Ports[j])

\* both AddEndpoints calls have issued all their backend calls
ConcDone ==
    /\ conc.active
    /\ conc.pcOld = Len(CallsOf(conc.older))
    /\ conc.pcNew = Len(CallsOf(conc.newer))
\* what one AddEndpoints call leaves when it runs alone
Alone(ep) == ApplyCalls([lbs |-> {}, idling |-> {}], CallsOf(ep), NoFail).lbs
ConcSvc == services[KeyA]
\* the call that issued all its backend calls before the other issued any
RanFirst(who) == ~conc.overlap /\ conc.first = who
SamePortState(L, ep) ==
    \A i \in DOMAIN ConcSvc.Ports :
        (Backed(ConcSvc.Ports[i], ep) /\ ~SCTPRejected(ConcSvc.Ports[i])) =>
            StateOf(lbs, PortVIPs(ConcSvc, ConcSvc.Ports[i]))
                = StateOf(L, PortVIPs(ConcSvc, ConcSvc.Ports[i]))

\* C8 as stated -- same-service interleaving: once two AddEndpoints calls for
\* one service, from an older and a newer Endpoints snapshot, have issued all
\* their backend calls in some interleaving, the VIPs of the service are those
\* the call with the newer snapshot leaves when it runs alone.
C8_Original ==
    ConcDone => StateOf(lbs, ServiceVIPs(ConcSvc)) = StateOf(Alone(conc.newer), ServiceVIPs(ConcSvc))

\* C8 as amended -- the backend keeps, for each VIP of each load balancer, what
\* the call that wrote it last put there, whichever snapshot that call used:
\* every VIP ends as one of the two calls alone leaves it, and when the calls
\* do not overlap the ports that the later call's snapshot backs end as that
\* call alone leaves them.
C8_LastWriterWins ==
    ConcDone =>
        /\ \A lb \in AllLBs : \A vip \in ServiceVIPs(ConcSvc) :
               VIPTargets(lbs, lb, vip) \in {VIPTargets(Alone(conc.older), lb, vip),
                                             VIPTargets(Alone(conc.newer), lb, vip)}
        /\ RanFirst("old") => SamePortState(Alone(conc.newer), conc.newer)
        /\ RanFirst("new") => SamePortState(Alone(conc.older), conc.older)

\* the two calls overlapped and left what neither leaves alone: a port whose
\* ClusterIP VIP each call cleared after the other had written it
C8_Witness ==
    /\ ConcDone /\ conc.overlap
    /\ StateOf(lbs, ServiceVIPs(ConcSvc)) # StateOf(Alone(conc.older), ServiceVIPs(ConcSvc))
    /\ StateOf(lbs, ServiceVIPs(ConcSvc)) # StateOf(Alone(conc.newer), ServiceVIPs(ConcSvc))
    /\ \E i \in DOMAIN ConcSvc.Ports :
           /\ ~OnClusterTier(lbs, ConcSvc, ConcSvc.Ports[i])
           /\ ~OnPerNodeTier(lbs, ConcSvc, ConcSvc.Ports[i])

\* the calls of the last operation, against the failing backend and against a
\* backend that never fails
IssuedAdd == AddEndpoints(last.key, last.ep, last.addClusterLBs, last.fail).calls
PlannedAdd == AddEndpoints(last.key, last.ep, last.addClusterLBs, NoFail).calls
IssuedDelete == deleteEndpoints(last.key, last.fail).calls
PlannedDelete == deleteEndpoints(last.key, NoFail).calls

\* a placement step is attempted when a write of one of its VIPs is issued
Attempted(calls, vips) ==
    \E i \in DOMAIN calls :
        calls[i].kind = "vip" /\ calls[i].vip \in vips /\ calls[i].targets # <<>>
FailsIn(calls, vips, fail) ==
    \E i \in DOMAIN calls :
        /\ calls[i].kind = "vip" /\ calls[i].vip \in vips /\ calls[i].targets # <<>>
        /\ CallFails(calls[i], fail)
ClusterIPVIP(svc, svcPort) == {<<svc.ClusterIP, svcPort.Port>>}
StepsOf(svc, svcPort) ==
    {NodePortVIPs(svc, svcPort), ClusterIPVIP(svc, svcPort),
     ExternalVIPs(svc, svcPort), IngressVIPs(svc, svcPort)}
AddWithWriteFailure ==
    /\ last.op = "add" /\ Processed(last.key) /\ ~IdlePath(LastSvc, last.ep)
    /\ last.fail.lb # {}

\* C9 as stated -- add partial-failure isolation: when a write of a placement
\* step fails, every placement step of the same port and of the other ports
\* that a failure-free run attempts is still attempted, and AddEndpoints
\* returns nil.
C9_Original ==
    AddWithWriteFailure =>
        /\ ~last.err
        /\ \A i \in DOMAIN LastSvc.Ports : \A step \in StepsOf(LastSvc, LastSvc.Ports[i]) :
               Attempted(PlannedAdd, step) => Attempted(IssuedAdd, step)

\* C9 as amended -- a failed NodePort creation abandons the ClusterIP,
\* external-IP and ingress-IP steps of that port, a failed ClusterIP placement
\* its external-IP and ingress-IP steps; a port whose NodePort and ClusterIP
\* writes all succeed has every step attempted whatever failed elsewhere, and
\* AddEndpoints returns nil.
C9_AddFailureIsolation ==
    AddWithWriteFailure =>
        /\ ~last.err
        /\ \A i \in DOMAIN LastSvc.Ports :
               LET sp == LastSvc.Ports[i]
                   np == NodePortVIPs(LastSvc, sp)
                   cip == ClusterIPVIP(LastSvc, sp)
                   rest == ExternalVIPs(LastSvc, sp) \cup IngressVIPs(LastSvc, sp)
               IN /\ FailsIn(IssuedAdd, np, last.fail) => ~Attempted(IssuedAdd, cip \cup rest)
                  /\ FailsIn(IssuedAdd, cip, last.fail) => ~Attempted(IssuedAdd, rest)
                  /\ ~FailsIn(IssuedAdd, np \cup cip, last.fail) =>
                         \A step \in StepsOf(LastSvc, sp) :
                             Attempted(PlannedAdd, step) => Attempted(IssuedAdd, step)

\* the NodePort step of one port failed and another port went through all its steps
C9_Witness ==
    /\ AddWithWriteFailure
    /\ \E i, j \in DOMAIN LastSvc.Ports :
           /\ FailsIn(IssuedAdd, NodePortVIPs(LastSvc, LastSvc.Ports[i]), last.fail)
           /\ Attempted(PlannedAdd, ClusterIPVIP(LastSvc, LastSvc.Ports[i]))
           /\ ~FailsIn(IssuedAdd, PortVIPs(LastSvc, LastSvc.Ports[j]), last.fail)
           /\ Attempted(IssuedAdd, ClusterIPVIP(LastSvc, LastSvc.Ports[j]))
           /\ Attempted(IssuedAdd, ExternalVIPs(LastSvc, LastSvc.Ports[j]))

InCalls(c, calls) == \E i \in DOMAIN calls : calls[i] = c
CallsSet(calls) == {calls[i] : i \in DOMAIN calls}
DeleteWithFailure ==
    /\ last.op = "delete" /\ Processed(last.key) /\ ~svcNeedsIdling(LastSvc.Annotations)
    /\ last.fail # NoFail
PhysicalIPsOf(nodes) == {PhysicalIP(n) : n \in nodes}

\* C10 as stated -- delete partial-failure isolation: when one load balancer
\* rejects its clears or cannot be resolved, or one node has no physical IPs,
\* every clear of the failure-free run that is not on that load balancer (not
\* at that node's physical IPs) is still issued, and deleteEndpoints returns
\* nil.
C10_Original ==
    (DeleteWithFailure /\ ~last.fail.noGateways) =>
        /\ ~last.err
        /\ \A c \in CallsSet(PlannedDelete) :
               (c.lb \notin (last.fail.lb \cup last.fail.noLB)
                /\ c.vip[1] \notin PhysicalIPsOf(last.fail.noPhys)) => InCalls(c, IssuedDelete)

\* C10 as amended -- a rejected clear blocks nothing, the calls are those of
\* the failure-free run; a gateway or worker LB that cannot be resolved, or
\* missing physical IPs, cost clears of that node only, and an unresolved
\* gateway LB all of that node's clears for the protocol; an unresolved cluster
\* LB costs the ports of its protocol only; without the list of gateways only
\* the cluster tier is cleared; deleteEndpoints returns nil in every case.
C10_DeleteFailureIsolation ==
    DeleteWithFailure =>
        /\ ~last.err
        /\ last.fail.lb # {} => IssuedDelete = PlannedDelete
        /\ \A n \in Nodes :
               ((\E lb \in last.fail.noLB : lb[2] = n) \/ n \in last.fail.noPhys) =>
                   \A c \in CallsSet(PlannedDelete) : c.lb[2] # n => InCalls(c, IssuedDelete)
        /\ \A lb \in last.fail.noLB :
               /\ lb[1] = "gw" =>
                      \A c \in CallsSet(IssuedDelete) : ~(c.lb[2] = lb[2] /\ c.lb[3] = lb[3])
               /\ lb[1] = "cluster" =>
                      /\ \A c \in CallsSet(IssuedDelete) : c.kind = "vip" => c.lb[3] # lb[3]
                      /\ \A c \in CallsSet(PlannedDelete) : c.lb[3] # lb[3] => InCalls(c, IssuedDelete)
        /\ last.fail.noGateways =>
               \A c \in CallsSet(IssuedDelete) : c.kind = "vip" => c.lb[1] = "cluster"

\* a gateway LB could not be resolved, the worker LB of that node lost its
\* clears and the other node got its own
C10_Witness ==
    /\ DeleteWithFailure
    /\ \E lb \in last.fail.noLB :
           /\ lb[1] = "gw"
           /\ \E c \in CallsSet(PlannedDelete) : c.lb = WorkerLB(lb[2], lb[3])
           /\ \E c \in CallsSet(IssuedDelete) : c.lb[1] = "wk" /\ c.lb[2] # lb[2]
    /\ \E i \in DOMAIN LastSvc.Ports : last.pre[i].cluster

\* the calls of the last handleNodePortLB, and those on the LB backend
BootstrapCalls == handleNodePortLB(last.node, last.store, last.fail).calls
IsListing(c) == c.kind \in {"getNamespaces", "getEndpoints"}
IssuedBootstrap == SelectSeq(BootstrapCalls, LAMBDA c : ~IsListing(c))
\* the bootstrap got past the gateway check and replays the Endpoints itself
LegacyBootstrap ==
    /\ last.op = "bootstrap" /\ ~svcController
    /\ (gwIfaceNone \/ getGatewayPhysicalIPs(last.node, last.fail) # <<>>)
    /\ ~last.fail.noNamespaces
OnClusterLB(c) == c.kind = "vip" /\ c.lb[1] = "cluster"
\* the Endpoints objects of the store, namespace by namespace
StoreEndpoints(store) == Flatten([i \in DOMAIN Namespaces |-> store[Namespaces[i]]])
\* what AddEndpoints(ep, false) issues for each of them
ReplayedWithoutClusterTier(store) ==
    Flatten([i \in DOMAIN StoreEndpoints(store) |->
        AddEndpoints(StoreEndpoints(store)[i].key, StoreEndpoints(store)[i].ep, FALSE, NoFail).calls])

\* C11 as stated -- bootstrap exclusion: handleNodePortLB without a services
\* controller runs AddEndpoints(ep, false) for every Endpoints object and
\* issues no VIP write, upsert or clear, on a cluster LB.
C11_Original ==
    (LegacyBootstrap /\ NoFailure(last.fail)) =>
        /\ IssuedBootstrap = ReplayedWithoutClusterTier(last.store)
        /\ \A c \in CallsSet(IssuedBootstrap) : ~OnClusterLB(c)

\* C11 as amended -- it runs AddEndpoints(ep, false) for every Endpoints
\* object and creates or updates no VIP on a cluster LB; the calls it issues
\* on a cluster LB are clears: of the ClusterIP VIP of a port with a
\* host-networked backend under shared gateway mode, and of the VIPs of a
\* service that goes idle.
C11_BootstrapExclusion ==
    (LegacyBootstrap /\ NoFailure(last.fail)) =>
        /\ IssuedBootstrap = ReplayedWithoutClusterTier(last.store)
        /\ \A c \in CallsSet(IssuedBootstrap) :
               OnClusterLB(c) =>
                   /\ c.targets = <<>>
                   /\ \E i \in DOMAIN StoreEndpoints(last.store) :
                          LET e == StoreEndpoints(last.store)[i]
                              svc == services[e.key]
                          IN /\ Processed(e.key) /\ c.vip[1] = svc.ClusterIP
                             /\ \/ IdlePath(svc, e.ep)
                                \/ /\ gwMode = "shared"
                                   /\ \E j \in DOMAIN svc.Ports :
                                          /\ svc.Ports[j].Port = c.vip[2]
                                          /\ Backed(svc.Ports[j], e.ep)
                                          /\ hasHostEndpoints(LbEpsOf(svc.Ports[j], e.ep).IPs)

\* a bootstrap that wrote the per-node VIPs of a host-backed port and cleared
\* its cluster VIP
C11_Witness ==
    /\ LegacyBootstrap /\ NoFailure(last.fail)
    /\ \E c \in CallsSet(IssuedBootstrap) : OnClusterLB(c) /\ c.targets = <<>>
    /\ \E c \in CallsSet(IssuedBootstrap) : c.kind = "vip" /\ c.lb[1] = "gw" /\ c.targets # <<>>
    /\ \E key \in Keys : \E i \in DOMAIN services[key].Ports :
           OnPerNodeTier(lbs, services[key], services[key].Ports[i])

\* the Endpoints objects whose replay meets a failing LB-backend call
ReplayOf(e, fail) == AddEndpoints(e.key, e.ep, FALSE, fail).calls
FailedAt(store, fail) ==
    {i \in DOMAIN StoreEndpoints(store) : AnyFails(ReplayOf(StoreEndpoints(store)[i], fail), fail)}
FirstFailed(store, fail) ==
    CHOOSE i \in FailedAt(store, fail) : \A j \in FailedAt(store, fail) : i <= j
ReplayedUpTo(store, n, fail) ==
    Flatten([i \in 1..n |-> ReplayOf(StoreEndpoints(store)[i], fail)])

\* C12 -- bootstrap failure is fatal: when an LB-backend call fails during the
\* replay of an Endpoints object, handleNodePortLB returns an error and the
\* Endpoints objects after it are not replayed.
C12_BootstrapFailureFatal ==
    (LegacyBootstrap /\ FailedAt(last.store, last.fail) # {}) =>
        /\ last.err
        /\ IssuedBootstrap
               = ReplayedUpTo(last.store, FirstFailed(last.store, last.fail), last.fail)

\* the LB backend now, and after one more deleteEndpoints of the same Endpoints
\* against the same backend
Backend == [lbs |-> lbs, idling |-> idling]
DeletedAgain == ApplyCalls(Backend, deleteEndpoints(last.key, last.fail).calls, last.fail)

\* C13 -- delete idempotence: after a deleteEndpoints, a second deleteEndpoints
\* of the same Endpoints leaves the VIPs and the idling balancer as the first
\* left them, and neither call returns an error.
C13_DeleteIdempotence ==
    last.op = "delete" =>
        /\ DeletedAgain = Backend
        /\ ~last.err
        /\ ~deleteEndpoints(last.key, last.fail).err

\* the first deleteEndpoints found VIPs of the service to clear
C13_Witness ==
    /\ DeleteDone
    /\ \E i \in DOMAIN LastSvc.Ports : last.pre[i].cluster \/ last.pre[i].perNode
    /\ DeletedAgain = Backend

\* a deleteEndpoints on a service that idling applies to registers it on the
\* idling balancer and creates or updates no VIP
DeleteIdles ==
    (last.op = "delete" /\ Processed(last.key) /\ svcNeedsIdling(LastSvc.Annotations)) =>
        /\ last.key \in idling
        /\ \A c \in CallsSet(deleteEndpoints(last.key, last.fail).calls) :
               c.kind = "vip" => c.targets = <<>>
\* the step that ran AddEndpoints on its non-idle path for the service
NonIdleAdd(key) ==
    last'.op = "add" /\ last'.key = key /\ ~IdlePath(services'[key], last'.ep)
\* the step that ran deleteEndpoints for the service, idling not applying to it
NonIdleDelete(key) ==
    last'.op = "delete" /\ last'.key = key /\ ~svcNeedsIdling(services'[key].Annotations)
Unregistered(key) == key \in idling /\ key \notin idling'

\* C14 as stated -- idling stickiness: a deleteEndpoints on a service that
\* idling applies to registers it and writes no non-empty VIP; only a later
\* AddEndpoints on its non-idle path removes the registration.
C14_Original ==
    [][/\ DeleteIdles'
       /\ \A key \in Keys : Unregistered(key) => NonIdleAdd(key)]_vars

\* C14 as amended -- the registration is removed by a later AddEndpoints on
\* its non-idle path or by a later deleteEndpoints that finds idling no longer
\* applying to the service, and by nothing else.
C14_IdlingStickiness ==
    [][/\ DeleteIdles'
       /\ \A key \in Keys : Unregistered(key) => NonIdleAdd(key) \/ NonIdleDelete(key)]_vars

\* a deleteEndpoints idled a service whose VIPs a non-idle period had left
C14_Witness ==
    /\ last.op = "delete" /\ Processed(last.key) /\ svcNeedsIdling(LastSvc.Annotations)
    /\ \E i \in DOMAIN LastSvc.Ports : last.pre[i].cluster \/ last.pre[i].perNode
    /\ last.key \in idling

\* the last call was an AddEndpoints or a deleteEndpoints whose Endpoints has
\* no service, or a service without a cluster address
AbsentService ==
    /\ last.op \in {"add", "delete"}
    /\ ~Processed(last.key)
IssuedLast == IF last.op = "add" THEN IssuedAdd ELSE IssuedDelete

\* C15 -- expected absence: an AddEndpoints or deleteEndpoints that finds no
\* service, or a service without a cluster address, returns nil, issues no
\* call, and leaves every VIP and the idling registrations as they were.
C15_AbsenceLeavesState ==
    [][AbsentService' =>
           /\ ~last'.err
           /\ IssuedLast' = <<>>
           /\ lbs' = lbs
           /\ idling' = idling]_vars

\* an AddEndpoints for Endpoints without a service, beside the VIPs of another
\* service
C15_Witness ==
    /\ AbsentService /\ last.op = "add" /\ last.ep # EpNone
    /\ lbs # {}

\* the gateway check of handleNodePortLB passed
GatewayReady == gwIfaceNone \/ getGatewayPhysicalIPs(last.node, last.fail) # <<>>
DelegatedBootstrap == last.op = "bootstrap" /\ svcController /\ GatewayReady

\* C16 -- bootstrap delegation: with a services controller and the gateway
\* ready, handleNodePortLB issues one RequestFullSync and nothing else (no
\* listing of namespaces or Endpoints, no AddEndpoints) and returns an error
\* exactly when RequestFullSync does.
C16_BootstrapDelegation ==
    DelegatedBootstrap =>
        /\ BootstrapCalls = <<RequestFullSync>>
        /\ last.err = last.fail.noFullSync

\* the full sync failed, with Endpoints in the store that were not replayed
C16_Witness ==
    /\ DelegatedBootstrap
    /\ last.fail.noFullSync /\ last.err
    /\ StoreEndpoints(last.store) # <<>>

\* the gateway router of the node has no physical IPs yet
GatewayNotReady ==
    /\ last.op = "bootstrap"
    /\ ~gwIfaceNone
    /\ getGatewayPhysicalIPs(last.node, last.fail) = <<>>

\* C20 -- bootstrap gateway precondition: when the gateway interface is not
\* 'none' and the node's gateway router has no physical IPs, handleNodePortLB
\* returns an error having issued nothing: no RequestFullSync, no listing, no
\* VIP write, with or without a services controller.
C20_GatewayPrecondition ==
    [][GatewayNotReady' =>
           /\ last'.err
           /\ BootstrapCalls' = <<>>
           /\ lbs' = lbs
           /\ idling' = idling]_vars

\* the check stopped a bootstrap that had Endpoints to replay
C20_Witness ==
    /\ GatewayNotReady /\ last.err
    /\ ~svcController
    /\ StoreEndpoints(last.store) # <<>>

\* ---- C17
\* a subset declares the pair (proto, name) when it has an address and lists a
\* port of that name and protocol with a protocol OVN balances and a port
\* number in 1..65535
DeclaringPorts(subset, proto, name) ==
    {i \in DOMAIN subset.Ports :
        /\ subset.Ports[i].Protocol = proto
        /\ subset.Ports[i].Name = name
        /\ proto \in {"TCP", "UDP", "SCTP"}
        /\ subset.Ports[i].Port \in 1..65535}
Declaring(ep, proto, name) ==
    {j \in DOMAIN ep.Subsets :
        /\ Len(ep.Subsets[j].Addresses) >= 1
        /\ DeclaringPorts(ep.Subsets[j], proto, name) # {}}
PortNames(ep) ==
    UNION {{ep.Subsets[j].Ports[i].Name : i \in DOMAIN ep.Subsets[j].Ports} :
              j \in DOMAIN ep.Subsets}
\* where the declaring subsets list the address ip: <<subset, position>>
Listings(ep, proto, name, ip) ==
    UNION {{<<j, i>> : i \in {k \in DOMAIN ep.Subsets[j].Addresses :
                                 ep.Subsets[j].Addresses[k] = ip}} :
              j \in Declaring(ep, proto, name)}
Occurrences(ip, seq) == Cardinality({i \in DOMAIN seq : seq[i] = ip})
AddressesOf(ep) == UNION {SeqToSet(ep.Subsets[j].Addresses) : j \in DOMAIN ep.Subsets}
LastDeclaring(ep, proto, name) ==
    CHOOSE j \in Declaring(ep, proto, name) : \A k \in Declaring(ep, proto, name) : k <= j
Aggregated == ret.fn = "getLbEndpoints"

\* C17: the table getLbEndpoints returns has an entry for each of TCP, UDP and
\* SCTP; an entry's keys are the names of the valid (protocol, name) pairs
\* declared by a subset with an address; a key's IPs hold each address as often
\* as the declaring subsets list it, and its Port is the port of the last
\* declaring subset; a pair with an invalid protocol or port is under no key.
C17_AggregationCorrectness ==
    Aggregated =>
        /\ DOMAIN ret.table = {"TCP", "UDP", "SCTP"}
        /\ \A proto \in DOMAIN ret.table :
            /\ DOMAIN ret.table[proto] =
                   {name \in PortNames(ret.ep) : Declaring(ret.ep, proto, name) # {}}
            /\ \A name \in DOMAIN ret.table[proto] :
                LET entry == ret.table[proto][name]
                    last_j == LastDeclaring(ret.ep, proto, name)
                    subset == ret.ep.Subsets[last_j]
                IN /\ \A ip \in AddressesOf(ret.ep) \cup SeqToSet(entry.IPs) :
                        Occurrences(ip, entry.IPs) =
                            Cardinality(Listings(ret.ep, proto, name, ip))
                   /\ \E i \in DeclaringPorts(subset, proto, name) :
                        entry.Port = subset.Ports[i].Port

\* two subsets declared (TCP, http) with different target ports, one subset
\* listed a port with an invalid number beside it, and the table was returned
C17_Witness ==
    /\ Aggregated
    /\ Len(ret.ep.Subsets) = 2
    /\ ret.ep.Subsets[1] = Subset(<<PodIP2, PodIP1>>, <<EpZero, EpHTTP>>)
    /\ ret.ep.Subsets[2] = Subset(<<PodIP1>>, <<EpHTTPAlt>>)
    /\ ret.table["TCP"]["http"] = [IPs |-> <<PodIP2, PodIP1, PodIP1>>, Port |-> 8081]

\* ---- C18
\* an address lies outside a pod-address range when it does not parse or is
\* below the range's first or above its last address
OutsideRange(ip, range) == ip = MalformedIP \/ ip < range.lo \/ ip > range.hi
OutsideEveryRange(ip) == \A range \in ClusterSubnets : OutsideRange(ip, range)
Classified == ret.fn = "hasHostEndpoints"

\* C18: hasHostEndpoints returns true exactly when some address of the list
\* lies outside every configured pod-address range, a malformed address
\* counting as outside; so false for the empty list and true for a list that
\* mixes cluster and host addresses.
C18_HostClassification ==
    Classified =>
        /\ ret.host <=> (\E i \in DOMAIN ret.ips : OutsideEveryRange(ret.ips[i]))
        /\ (ret.ips = <<>> => ~ret.host)
        /\ (ret.ips \in {<<PodIP1, HostIP>>, <<HostIP, PodIP3>>} => ret.host)
        /\ (ret.ips = <<PodIP3, MalformedIP>> => ret.host)

\* a pod of the second range before a host-networked pod was classified
C18_Witness ==
    /\ Classified
    /\ ret.ips = <<PodIP3, HostIP>>
    /\ ret.host

\* ---- C19
PerNodeLBsOf(proto) == {lb \in PerNodeLBs : lb[3] = proto}
IsWriteOf(c, vip, tier) == c.kind = "vip" /\ c.vip = vip /\ c.lb \in tier /\ c.targets # <<>>
IsClearOf(c, vip, tier) == c.kind = "vip" /\ c.vip = vip /\ c.lb \in tier /\ c.targets = <<>>
FailedWrite(calls, vip, tier, fail) ==
    \E w \in DOMAIN calls : IsWriteOf(calls[w], vip, tier) /\ CallFails(calls[w], fail)
\* every clear of vip on the old tier comes after a write of vip on the new
\* tier that succeeded, and none of the writes on the new tier failed
ClearsFollowWrites(calls, vip, old, new, fail) ==
    \A c \in DOMAIN calls :
        IsClearOf(calls[c], vip, old) =>
            /\ \E w \in 1..(c - 1) :
                   IsWriteOf(calls[w], vip, new) /\ ~CallFails(calls[w], fail)
            /\ ~FailedWrite(calls, vip, new, fail)
\* the load balancers before the first call and after each call
RECURSIVE LBsAlong(_, _, _)
LBsAlong(st, calls, fail) ==
    IF calls = <<>> THEN <<st.lbs>>
    ELSE <<st.lbs>> \o LBsAlong(ApplyCall(st, Head(calls), fail), Tail(calls), fail)
OnSomeTier(L, svc, svcPort) == OnClusterTier(L, svc, svcPort) \/ OnPerNodeTier(L, svc, svcPort)
PerNodeVIPs(L, svc, svcPort) ==
    [n \in Nodes |-> <<GatewayVIP(L, n, svc, svcPort), WorkerVIP(L, n, svc, svcPort)>>]

\* C19 -- make-before-break: in an AddEndpoints that does not take the idle
\* path, the ClusterIP VIP of a port is cleared on one tier only after it was
\* written on the other tier and only if no write there failed; after every
\* call of the operation a VIP that was on a tier before is still on a tier;
\* and a failed write on one tier leaves the VIP on the other tier as it was.
C19_MakeBeforeBreak ==
    [][\A key \in Keys :
          (NonIdleAdd(key) /\ Processed(key)) =>
              \A calls \in {AddEndpoints(key, last'.ep, last'.addClusterLBs, last'.fail).calls} :
              \A along \in {LBsAlong([lbs |-> lbs, idling |-> idling], calls, last'.fail)} :
                 /\ lbs' = along[Len(along)]
                 /\ \A i \in DOMAIN services[key].Ports :
                      LET svc == services[key]
                          svcPort == svc.Ports[i]
                          fail == last'.fail
                          vip == <<svc.ClusterIP, svcPort.Port>>
                          cluster == {ClusterLB(svcPort.Protocol)}
                          perNode == PerNodeLBsOf(svcPort.Protocol)
                      IN /\ ClearsFollowWrites(calls, vip, cluster, perNode, fail)
                         /\ ClearsFollowWrites(calls, vip, perNode, cluster, fail)
                         /\ OnSomeTier(lbs, svc, svcPort) =>
                                \A k \in DOMAIN along : OnSomeTier(along[k], svc, svcPort)
                         /\ (FailedWrite(calls, vip, perNode, fail) =>
                                ClusterVIP(lbs', svc, svcPort) = ClusterVIP(lbs, svc, svcPort))
                         /\ (FailedWrite(calls, vip, cluster, fail) =>
                                PerNodeVIPs(lbs', svc, svcPort) = PerNodeVIPs(lbs, svc, svcPort))
      ]_vars

\* an AddEndpoints found the first port's VIP on the cluster tier only and
\* left it on the per-node tier only
C19_Witness ==
    /\ last.op = "add" /\ last.key = KeyA /\ Processed(KeyA)
    /\ ~IdlePath(LastSvc, last.ep)
    /\ last.pre[1].cluster /\ ~last.pre[1].perNode
    /\ OnPerNodeTier(lbs, LastSvc, LastSvc.Ports[1])
    /\ ~OnClusterTier(lbs, LastSvc, LastSvc.Ports[1])

==============================================================================
